---- MODULE Spec2Model ----
(***************************************************************************)
(* Model of the kanji worksheet generator (sheetcreator.py, overrides.py). *)
(*                                                                         *)
(* Lengths are integers in units of 1/26 mm: with the A4 page FPDF() uses  *)
(* (210 mm x 297 mm) every length the program computes is then a whole     *)
(* number (cell_width = 210/13 mm = 420 units, cell_width/10 = 42,         *)
(* cell_width/4 = 105), so every comparison is the one the floats make.    *)
(*                                                                         *)
(* A text is a sequence of tokens (strings); ", ".join(xs) puts the token  *)
(* ", " between the items.                                                 *)
(***************************************************************************)
EXTENDS Integers, Sequences, FiniteSets, TLC

VARIABLES
    style,       \* the global StyleOptions value, as the set of flags that are set
    pc,          \* position of the running function
    kanjis,      \* the list of KanjiData handed to renderDocument / applyOverrides
    idx,         \* number of list items the running loop has consumed
    pdf,         \* the FPDF object's cursor state: x, y, page, font, draw colour
    ops,         \* what the last render_kanji_block call drew, in order
    heightLeft,  \* renderDocument's local heightLeft
    ownPages,    \* number of pdf.add_page() calls renderDocument itself has made
    pageBlocks,  \* indices of the records renderDocument placed since its last add_page()
    rendered,    \* the records handed to render_kanji_block so far, in order
    kanjiDict,   \* lookupKanjiSymbolsDict's local kanjiDict (symbol -> KanjiData)
    jsonEntry,   \* the dictionary-file element the load loop handled last
    kanjiSyms,   \* the requested symbols
    kanjiData,   \* lookupKanjiSymbolsDict's result list
    overrides,   \* the overrides table (symbol -> DictionaryOverride)
    before       \* the records as they were when applyOverrides was called

vars == <<style, pc, kanjis, idx, pdf, ops, heightLeft, ownPages, pageBlocks, rendered,
          kanjiDict, jsonEntry, kanjiSyms, kanjiData, overrides, before>>

----------------------------------------------------------------------------
(* Bounds of the model *)

\* longest list of records rendered
MaxKanjis == 7
\* longest list of records handed to applyOverrides
MaxOverridden == 2
\* largest number of dictionary entries of a record
MaxEntries == 10
\* longest reading list of a record
MaxReadings == 2
\* number of elements read from the dictionary file
MaxFile == 3
\* longest raw dictionary-entry list of a file element
MaxRawEntries == 2
\* longest list of requested symbols
MaxSyms == 3

----------------------------------------------------------------------------
(* Small sequence helpers *)

RECURSIVE SeqsUpTo(_, _)
SeqsUpTo(S, n) ==
    IF n = 0 THEN {<<>>}
    ELSE LET shorter == SeqsUpTo(S, n - 1)
         IN  shorter \cup {Append(s, e) : s \in {t \in shorter : Len(t) = n - 1}, e \in S}

Min(a, b) == IF a < b THEN a ELSE b

\* The values of consecutive statements, evaluated in program order; the result is the last
InOrder(steps) == steps[Len(steps)]

RECURSIVE SumHeights(_)
SumHeights(hs) == IF hs = <<>> THEN 0 ELSE Head(hs) + SumHeights(Tail(hs))

----------------------------------------------------------------------------
(* StyleOptions *)

StyleOptions == {"BigKanji", "ShowRomaji", "ShowRegularKanji", "CrossGuide", "ShowDictionary"}

----------------------------------------------------------------------------
(* Page geometry *)

\* pdf.w of FPDF(): A4, 210 mm
PageW == 5460
\* pdf.h of FPDF(): A4, 297 mm
PageH == 7722
\* FPDF()'s bottom margin for automatic page breaks: 2 cm
AutoBreakMargin == 520
\* pdf.page_break_trigger
PageBreakTrigger == PageH - AutoBreakMargin

cell_width == PageW \div 13
l_margin == cell_width \div 2
t_margin == cell_width \div 2
availHeightPerPage == PageH - cell_width

----------------------------------------------------------------------------
(* None, and a value that is not None *)

None == {}
Some(v) == {v}
TheValue(opt) == CHOOSE v \in opt : TRUE

----------------------------------------------------------------------------
(* Text *)

\* sep.join(items)
RECURSIVE Join(_, _)
Join(sep, items) ==
    IF Len(items) = 0 THEN <<>>
    ELSE IF Len(items) = 1 THEN <<items[1]>>
    ELSE <<items[1], sep>> \o Join(sep, Tail(items))

Kana == {"KA", "KI"}

\* romkan.to_roma on the readings of Kana
to_roma(reading) ==
    CASE reading = "KA" -> "ka"
      [] reading = "KI" -> "ki"
      [] OTHER -> reading

\* str.capitalize on the meanings used here
capitalize(x) ==
    CASE x = "sun" -> "Sun"
      [] x = "book" -> "Book"
      [] x = "day" -> "Day"
      [] OTHER -> x

MapSeq(Op(_), s) == [i \in 1..Len(s) |-> Op(s[i])]

----------------------------------------------------------------------------
(* KanjiData and KanjiDictionaryEntry *)

KanjiDictionaryEntry(word, translations) == [word |-> word, translations |-> translations]

\* the i-th dictionary entry of a record: a word and one or two translations
Entry(i) ==
    KanjiDictionaryEntry("w" \o ToString(i),
                         IF i % 2 = 0 THEN <<"t" \o ToString(i), "u" \o ToString(i)>>
                         ELSE <<"t" \o ToString(i)>>)

Entries(n) == [i \in 1..n |-> Entry(i)]

\* The symbols of the model are named by code point: U65E5, U672C (both in the
\* overrides table of overrides.py) and U732B (not in it)

\* "%05x" % ord(symbol[0])
StrokeDiagramFile(sym) ==
    CASE sym = "U65E5" -> "065e5"
      [] sym = "U672C" -> "0672c"
      [] sym = "U732B" -> "0732b"
      [] OTHER -> "00000"

\* KanjiData.__init__ followed by the four setters
KanjiData(sym, meanings, kun, on, entries) ==
    [symbol |-> sym, stroke_diagram_file |-> StrokeDiagramFile(sym),
     meanings |-> meanings, kun_readings |-> kun,
     on_readings |-> on, dictionary_entries |-> entries]

\* The stroke diagrams present in the kanji folder: one symbol has a PNG, the others none
StrokeFiles == {"065e5"}

----------------------------------------------------------------------------
(* The FPDF calls the program makes.  A canvas is the cursor state plus the  *)
(* list of things drawn so far.                                              *)

InitialPdf == [x |-> 0, y |-> 0, page |-> 0, font |-> <<"", 0>>, draw |-> "black"]

Draw(c, what) == [c EXCEPT !.ops = Append(c.ops, what)]

\* pdf.will_page_break(h): automatic page breaks are on unless switched off
will_page_break(p, h) == p.y + h > PageBreakTrigger

\* pdf.add_page()
add_page(p) == [p EXCEPT !.x = l_margin, !.y = t_margin, !.page = p.page + 1]

\* the automatic page break: a new page, x kept
perform_page_break(p) == [p EXCEPT !.y = t_margin, !.page = p.page + 1]

\* pdf.cell(w, h, text, border, new_x, new_y)
cell(c, w, h, text, border, new_x, new_y) ==
    LET p == IF will_page_break(c.pdf, h) THEN perform_page_break(c.pdf) ELSE c.pdf
        q == [p EXCEPT !.x = IF new_x = "RIGHT" THEN p.x + w ELSE p.x,
                       !.y = IF new_y = "NEXT" THEN p.y + h ELSE p.y]
    IN  [pdf |-> q,
         ops |-> Append(c.ops, [op |-> "cell", at |-> p, w |-> w, h |-> h,
                                text |-> text, border |-> border])]

\* pdf.multi_cell(w, h, text, border=1, max_line_height, new_x=XPos.RIGHT, new_y=YPos.TOP)
multi_cell(c, w, h, text, max_line_height) ==
    LET p == IF will_page_break(c.pdf, max_line_height) THEN perform_page_break(c.pdf) ELSE c.pdf
        q == [p EXCEPT !.x = p.x + w]
    IN  [pdf |-> q,
         ops |-> Append(c.ops, [op |-> "multi_cell", at |-> p, w |-> w, h |-> h,
                                text |-> text, border |-> 1])]

\* pdf.line(x1, y1, x2, y2)
line(c, x1, y1, x2, y2) ==
    Draw(c, [op |-> "line", at |-> [c.pdf EXCEPT !.x = x1, !.y = y1],
             w |-> x2 - x1, h |-> y2 - y1, text |-> <<>>, border |-> 0])

\* pdf.image(name, x, y, w, h): the cursor stays where it is
image(c, name, w, h) ==
    Draw(c, [op |-> "image", at |-> c.pdf, w |-> w, h |-> h, text |-> <<name>>, border |-> 0])

\* pdf.ln(h)
ln(c, h) == [c EXCEPT !.pdf.x = l_margin, !.pdf.y = c.pdf.y + h]

\* pdf.set_x(x)
set_x(c, x) == [c EXCEPT !.pdf.x = x]

\* pdf.set_y(y): also moves x back to the left margin
set_y(c, y) == [c EXCEPT !.pdf.x = l_margin, !.pdf.y = y]

\* pdf.set_font(family, style, size)
set_font(c, fstyle, size) == [c EXCEPT !.pdf.font = <<fstyle, size>>]

\* pdf.set_draw_color(r, g, b)
set_draw_color(c, colour) == [c EXCEPT !.pdf.draw = colour]

----------------------------------------------------------------------------
(* The layout engine *)

\* grouper(n, iterable): tuples of n items, the last one filled up with None
grouper(n, iterable) ==
    [g \in 1..((Len(iterable) + n - 1) \div n) |->
        [j \in 1..n |-> IF (g - 1) * n + j <= Len(iterable)
                        THEN Some(iterable[(g - 1) * n + j])
                        ELSE None]]

TakeAll(s, n) == s

\* s[:n]
Take(s, n) == SubSeq(s, 1, Min(n, Len(s)))

render_write_cell(c, st) ==
    LET x == c.pdf.x
        y == c.pdf.y
        c1 == IF "CrossGuide" \in st
              THEN LET g == set_draw_color(c, "gray")
                       h == line(g, x, y + (cell_width \div 2), x + cell_width, y + (cell_width \div 2))
                   IN  line(h, x + (cell_width \div 2), y, x + (cell_width \div 2), y + cell_width)
              ELSE c
    IN  cell(set_draw_color(c1, "black"), cell_width, cell_width, <<>>, 1, "RIGHT", "TOP")

\* for _ in range(n): render_write_cell(pdf, cell_width)
RECURSIVE render_write_cells(_, _, _)
render_write_cells(c, st, n) ==
    IF n = 0 THEN c
    ELSE LET c1 == render_write_cell(c, st)
         IN  InOrder(<<c1, render_write_cells(c1, st, n - 1)>>)

ReadingsText_kanaOnly(readings) == Join(", ", readings)

\* the text of the cell render_readings draws for a non-empty list
ReadingsText(readings) ==
    LET kana_readings == Join(", ", readings)
        romaji_readings == Join(", ", MapSeq(to_roma, readings))
    IN  kana_readings \o <<"\n">> \o romaji_readings

render_readings(c, readings) ==
    IF Len(readings) = 0
    THEN cell(c, cell_width * 3, cell_width, <<"none">>, 1, "RIGHT", "TOP")
    ELSE multi_cell(c, cell_width * 3, cell_width, ReadingsText(readings), cell_width \div 2)

render_meaning_block(c, kanji, cells) ==
    LET meaningText == Join(", ", MapSeq(capitalize, kanji.meanings))
    IN  multi_cell(c, cell_width * cells, cell_width, meaningText, cell_width \div 2)

\* the loop of render_dictionary_sub_block over the entries from position i on
RECURSIVE sub_block_entries(_, _, _, _)
sub_block_entries(c, entries, i, originX) ==
    IF i > Len(entries) \/ entries[i] = None THEN c
    ELSE LET dictionaryEntry == TheValue(entries[i])
             paddingSize == cell_width \div 10
             textLineHeight == cell_width \div 4
             c1 == set_font(set_x(c, originX + paddingSize), "B", 8)
             c2 == cell(c1, cell_width * 3, textLineHeight, <<dictionaryEntry.word>>, 0, "LEFT", "NEXT")
             c3 == set_font(set_x(c2, originX + paddingSize), "", 8)
             translations == Join("; ", dictionaryEntry.translations)
             c4 == cell(c3, cell_width * 3, textLineHeight, translations, 0, "LEFT", "NEXT")
             c5 == set_y(c4, c4.pdf.y + paddingSize)
         IN  InOrder(<<c2, c4, c5, sub_block_entries(c5, entries, i + 1, originX)>>)

render_dictionary_sub_block(c, entries, column) ==
    LET originX == c.pdf.x + (column * (cell_width * 4))
        originY == c.pdf.y
        paddingSize == cell_width \div 10
        c1 == set_y(set_x(c, originX + paddingSize), originY + paddingSize)
    IN  InOrder(<<c1, sub_block_entries(c1, entries, 1, originX)>>)

\* the loop of render_dictionary_block over the columns from position i on
RECURSIVE dictionary_columns(_, _, _, _, _)
dictionary_columns(c, columns, i, oldX, oldY) ==
    IF i > Len(columns) THEN c
    ELSE LET c1 == set_y(set_x(c, oldX), oldY)
             c2 == render_dictionary_sub_block(c1, columns[i], i - 1)
         IN  InOrder(<<c1, c2, dictionary_columns(c2, columns, i + 1, oldX, oldY)>>)

DictionaryHeight(n) ==
    LET paddingSize == cell_width \div 10
        textLineHeight == cell_width \div 4
    IN  (Min(3, n) * (2 * textLineHeight + paddingSize)) + (2 * paddingSize)

render_dictionary_block(c, kanji) ==
    LET oldX == c.pdf.x
        oldY == c.pdf.y
        height == DictionaryHeight(Len(kanji.dictionary_entries))
        c1 == cell(c, cell_width * 12, height, <<>>, 1, "RIGHT", "TOP")
        columns == Take(grouper(3, kanji.dictionary_entries), 3)
        c2 == dictionary_columns(c1, columns, 1, oldX, oldY)
        c3 == set_y(set_x(c2, oldX), oldY)
    IN  InOrder(<<c1, c2, c3, ln(c3, height)>>)

\* the condition of calc_kanji_block_height for the dictionary's additional height
HasDictionaryHeight(kanji, st) ==
    "ShowDictionary" \in st /\ Len(kanji.dictionary_entries) > 0

calc_kanji_block_height(kanji, st) ==
    LET baseHeight == (IF "BigKanji" \in st THEN cell_width * 4 ELSE cell_width * 3)
                      + (cell_width \div 4)
        additionalHeight ==
            IF HasDictionaryHeight(kanji, st)
            THEN LET paddingSize == cell_width \div 10
                     textLineHeight == cell_width \div 4
                 IN  ((2 * textLineHeight + paddingSize) * Min(Len(kanji.dictionary_entries), 3))
                     + (paddingSize * 2)
            ELSE 0
    IN  baseHeight + additionalHeight

\* the vertical gap that ends a block, after the dictionary block or without one
TrailingGap(withDictionary) ==
    IF withDictionary THEN cell_width \div 4 ELSE (cell_width * 5) \div 4

DrawsDictionary_flagOnly(kanji, st) == "ShowDictionary" \in st

\* the condition of render_kanji_block for drawing the dictionary block
DrawsDictionary(kanji, st) ==
    "ShowDictionary" \in st /\ Len(kanji.dictionary_entries) > 0

render_kanji_block(c, kanji, st) ==
    LET c0 == set_font(c, "", 12)
        c1 == IF "ShowRegularKanji" \in st
              THEN LET a == cell(set_font(c0, "", 24), cell_width * 1, cell_width,
                                 <<kanji.symbol>>, 1, "RIGHT", "TOP")
                   IN  render_meaning_block(set_font(a, "B", 12), kanji, 5)
              ELSE render_meaning_block(set_font(c0, "B", 12), kanji, 6)
        c2 == render_readings(set_font(c1, "B", 12), kanji.on_readings)
        c3 == render_readings(c2, kanji.kun_readings)
        c4 == ln(c3, cell_width)
        kanjiBlockSize == IF "BigKanji" \in st THEN 3 ELSE 2
        c5 == cell(c4, cell_width * kanjiBlockSize, cell_width * kanjiBlockSize, <<>>, 1, "LEFT", "TOP")
        c6 == IF kanji.stroke_diagram_file \in StrokeFiles
              THEN image(c5, kanji.stroke_diagram_file, cell_width * kanjiBlockSize, cell_width * kanjiBlockSize)
              ELSE cell(c5, cell_width * kanjiBlockSize, cell_width * kanjiBlockSize, <<>>, 1, "RIGHT", "TOP")
        numWriteCellsInX == IF "BigKanji" \in st THEN 9 ELSE 10
        writeX == (cell_width * (2 * kanjiBlockSize + 1)) \div 2
        c7 == render_write_cells(set_x(c6, writeX), st, numWriteCellsInX)
        c8 == render_write_cells(set_x(ln(c7, cell_width), writeX), st, numWriteCellsInX)
        c9 == IF "BigKanji" \in st
              THEN render_write_cells(set_x(ln(c8, cell_width), writeX), st, numWriteCellsInX)
              ELSE c8
        c10 == IF DrawsDictionary(kanji, st)
               THEN LET d == render_dictionary_block(ln(c9, cell_width), kanji)
                    IN  InOrder(<<d, ln(d, TrailingGap(TRUE))>>)
               ELSE ln(c9, TrailingGap(FALSE))
    IN  InOrder(<<c1, c2, c3, c4, c5, c6, c7, c8, c9, c10>>)

----------------------------------------------------------------------------
(* renderDocument *)

NeedNewPage_whenFull(left, kanjiBlockHeight) == left <= 0

NeedNewPage_always(left, kanjiBlockHeight) == TRUE

\* "Do we need a new page?"
NeedNewPage(left, kanjiBlockHeight) == left < kanjiBlockHeight

\* the variables of the lookup and override functions, untouched by rendering
lookupVars == <<kanjiDict, jsonEntry, kanjiSyms, kanjiData, overrides, before>>

NoLookup ==
    /\ kanjiDict = <<>>
    /\ jsonEntry = <<>>
    /\ kanjiSyms = <<>>
    /\ kanjiData = <<>>
    /\ overrides = <<>>
    /\ before = <<>>

\* renderDocument up to the loop: margins set, heightLeft full, first page added
RenderDocumentStart(st, ks) ==
    /\ style = st
    /\ kanjis = ks
    /\ pc = "renderDocument"
    /\ idx = 0
    /\ pdf = add_page([InitialPdf EXCEPT !.font = <<"", 14>>])
    /\ ops = <<>>
    /\ heightLeft = availHeightPerPage
    /\ ownPages = 1
    /\ pageBlocks = <<>>
    /\ rendered = <<>>

\* one iteration of "for kanji in kanjis"
RenderDocumentStep ==
    /\ pc = "renderDocument"
    /\ idx < Len(kanjis)
    /\ LET kanji == kanjis[idx + 1]
           kanjiBlockHeight == calc_kanji_block_height(kanji, style)
           newPage == NeedNewPage(heightLeft, kanjiBlockHeight)
           p == IF newPage THEN add_page(pdf) ELSE pdf
           left == IF newPage THEN availHeightPerPage ELSE heightLeft
           c == render_kanji_block([pdf |-> p, ops |-> <<>>], kanji, style)
       IN  /\ pdf' = c.pdf
           /\ ops' = c.ops
           /\ heightLeft' = left - kanjiBlockHeight
           /\ ownPages' = IF newPage THEN ownPages + 1 ELSE ownPages
           /\ pageBlocks' = IF newPage THEN <<idx + 1>> ELSE Append(pageBlocks, idx + 1)
           /\ rendered' = Append(rendered, kanji)
    /\ idx' = idx + 1
    /\ UNCHANGED <<style, pc, kanjis>>
    /\ UNCHANGED lookupVars

\* pdf.output(path) after the loop
RenderDocumentOutput ==
    /\ pc = "renderDocument"
    /\ idx = Len(kanjis)
    /\ pc' = "done"
    /\ UNCHANGED <<style, kanjis, idx, pdf, ops, heightLeft, ownPages, pageBlocks, rendered>>
    /\ UNCHANGED lookupVars

NextRender == RenderDocumentStep \/ RenderDocumentOutput

\* records for the page-layout runs: one symbol, with no, one or MaxEntries entries
LayoutEntryCounts == {0, MaxEntries}

LayoutKanjis ==
    {KanjiData("U672C", <<"book">>, <<"KI">>, <<>>, Entries(n)) : n \in LayoutEntryCounts}

\* the style flags the block height depends on
LayoutStyles == SUBSET {"BigKanji", "ShowDictionary"}

InitLayout ==
    /\ \E st \in LayoutStyles, ks \in SeqsUpTo(LayoutKanjis, MaxKanjis) :
          RenderDocumentStart(st, ks)
    /\ NoLookup

SpecLayout == InitLayout /\ [][NextRender]_vars

\* records for the single-block runs: every pair of reading lists with no and
\* with MaxEntries dictionary entries, and every entry count with one pair of
\* reading lists
ReadingLists == SeqsUpTo(Kana, MaxReadings)

BlockKanjis ==
    {KanjiData(sym, <<"sun", "day">>, kun, on, Entries(n)) :
        sym \in {"U65E5", "U672C"}, kun \in {<<>>, <<"KI">>}, on \in ReadingLists,
        n \in {0, MaxEntries}}
    \cup
    {KanjiData(sym, <<"sun", "day">>, <<"KI">>, <<"KA">>, Entries(n)) :
        sym \in {"U65E5", "U672C"}, n \in 0..MaxEntries}

\* the style flags the render functions read (ShowRomaji is read nowhere)
BlockStyles == SUBSET (StyleOptions \ {"ShowRomaji"})

InitBlock ==
    /\ \E st \in BlockStyles, k \in BlockKanjis : RenderDocumentStart(st, <<k>>)
    /\ NoLookup

SpecBlock == InitBlock /\ [][NextRender]_vars

----------------------------------------------------------------------------
(* lookupKanjiSymbolsDict *)

\* What a try block yields: a value, or an exception raised
Returned(v) == [raised |-> FALSE, value |-> v]
Raised == [raised |-> TRUE, value |-> <<>>]

\* One element of a record's raw dictionary-entry list as json.load gives it:
\*   shape "pair"   [word, translations]; translations is a list (sized) or a number
\*   shape "triple" a list of three items
\*   shape "scalar" a number
RawEntry(shape, word, sized, translations) ==
    [shape |-> shape, word |-> word, sized |-> sized, translations |-> translations]

RawEntries ==
    { RawEntry("pair", "w1", TRUE, <<"t1">>),
      RawEntry("pair", "w2", TRUE, <<>>),
      RawEntry("pair", "w3", FALSE, <<>>),
      RawEntry("triple", "w4", TRUE, <<"t4">>),
      RawEntry("scalar", "", FALSE, <<>>) }

\* A raw dictionary-entry list: a list of raw entries, or a value that cannot be iterated
RawLists ==
    {[iterable |-> TRUE, items |-> items] : items \in SeqsUpTo(RawEntries, MaxRawEntries)}
    \cup {[iterable |-> FALSE, items |-> <<>>]}

FileMeanings(sym) == IF sym = "U65E5" THEN <<"sun", "day">> ELSE <<"book">>
FileKun(sym) == IF sym = "U65E5" THEN <<"HI">> ELSE <<>>
FileOn(sym) == IF sym = "U65E5" THEN <<"KA">> ELSE <<"KI">>

\* One element of the dictionary file as json.load gives it:
\*   sized FALSE: a number, len() raises; otherwise a list of `arity` items
\*   symbol "" is the empty string; hashable FALSE: the symbol is a list holding the string
JsonEntry(sized, arity, sym, hashable, raw) ==
    [sized |-> sized, arity |-> arity, symbol |-> sym, hashable |-> hashable,
     meanings |-> FileMeanings(sym), kun |-> FileKun(sym), on |-> FileOn(sym), raw |-> raw]

EmptyRaw == [iterable |-> TRUE, items |-> <<>>]

\* The elements read from the file: a number; lists of 3 to 6 items with a
\* good, an empty or an unhashable symbol; and lists of 5 items with a good
\* symbol and every raw dictionary-entry list
JsonEntries ==
    {JsonEntry(FALSE, 0, "", TRUE, EmptyRaw)}
    \cup {JsonEntry(TRUE, a, sym, h, EmptyRaw) :
             a \in 3..6, sym \in {"U65E5", "U672C", ""}, h \in BOOLEAN}
    \cup {JsonEntry(TRUE, 5, sym, TRUE, raw) : sym \in {"U65E5", "U672C"}, raw \in RawLists}

\* the try block of parseKanjiDictEntries for one entry: what is appended
ParseEntry(entry) ==
    IF entry.shape # "pair" THEN Raised
    ELSE IF ~entry.sized THEN Raised
    ELSE IF Len(entry.translations) > 0
         THEN Returned(<<KanjiDictionaryEntry(entry.word, entry.translations)>>)
         ELSE Returned(<<>>)

\* the loop of parseKanjiDictEntries with the try block left out: an entry's exception escapes
RECURSIVE ParseLoop_noTry(_, _)
ParseLoop_noTry(items, dictEntries) ==
    IF items = <<>> THEN Returned(dictEntries)
    ELSE LET r == ParseEntry(Head(items))
         IN  IF r.raised THEN Raised
             ELSE ParseLoop_noTry(Tail(items), dictEntries \o r.value)

\* the loop of parseKanjiDictEntries: an entry that raises is skipped
RECURSIVE ParseLoop(_, _)
ParseLoop(items, dictEntries) ==
    IF items = <<>> THEN Returned(dictEntries)
    ELSE LET r == ParseEntry(Head(items))
         IN  ParseLoop(Tail(items), IF r.raised THEN dictEntries ELSE dictEntries \o r.value)

parseKanjiDictEntries(dictionaryEntries) ==
    IF ~dictionaryEntries.iterable THEN Raised
    ELSE ParseLoop(dictionaryEntries.items, <<>>)

\* the try block of the load loop: the (symbol, KanjiData) stored, or an exception
ReadKanji(kanjiEntry) ==
    IF ~kanjiEntry.sized THEN Raised
    ELSE IF kanjiEntry.arity # 4 /\ kanjiEntry.arity # 5 THEN Raised
    ELSE IF kanjiEntry.symbol = "" THEN Raised
    ELSE LET rawDictionaryEntries == IF kanjiEntry.arity = 4 THEN EmptyRaw ELSE kanjiEntry.raw
             parsed == parseKanjiDictEntries(rawDictionaryEntries)
         IN  IF parsed.raised THEN Raised
             ELSE IF ~kanjiEntry.hashable THEN Raised
             ELSE Returned([symbol |-> kanjiEntry.symbol,
                            kanji |-> KanjiData(kanjiEntry.symbol, kanjiEntry.meanings,
                                                kanjiEntry.kun, kanjiEntry.on, parsed.value)])

LookupSymbol_unchecked(dict, data, kanjiSym) ==
    IF kanjiSym \notin DOMAIN dict THEN Raised ELSE Returned(Append(data, dict[kanjiSym]))

\* the body of the loop over kanjiSyms
LookupSymbol(dict, data, kanjiSym) ==
    IF kanjiSym \notin DOMAIN dict THEN Returned(data)
    ELSE Returned(Append(data, dict[kanjiSym]))

renderVars == <<style, kanjis, pdf, ops, heightLeft, ownPages, pageBlocks, rendered>>

NoRender ==
    /\ style = {}
    /\ kanjis = <<>>
    /\ pdf = InitialPdf
    /\ ops = <<>>
    /\ heightLeft = 0
    /\ ownPages = 0
    /\ pageBlocks = <<>>
    /\ rendered = <<>>

InitLookup ==
    /\ pc = "load"
    /\ idx = 0
    /\ kanjiDict = <<>>
    /\ jsonEntry = <<>>
    /\ kanjiSyms = <<>>
    /\ kanjiData = <<>>
    /\ overrides = <<>>
    /\ before = <<>>
    /\ NoRender

\* one iteration of "for kanjiEntry in jsonObj"
LoadEntry ==
    /\ pc = "load"
    /\ idx < MaxFile
    /\ \E kanjiEntry \in JsonEntries :
          LET r == ReadKanji(kanjiEntry)
          IN  /\ jsonEntry' = kanjiEntry
              /\ kanjiDict' = IF r.raised THEN kanjiDict
                              ELSE (r.value.symbol :> r.value.kanji) @@ kanjiDict
    /\ idx' = idx + 1
    /\ UNCHANGED <<pc, kanjiSyms, kanjiData, overrides, before>>
    /\ UNCHANGED renderVars

\* the file is read; the loop over the requested symbols begins
EndOfFile ==
    /\ pc = "load"
    /\ pc' = "lookup"
    /\ idx' = 0
    /\ jsonEntry' = <<>>
    /\ kanjiSyms' \in SeqsUpTo({"U65E5", "U672C", "U732B"}, MaxSyms)
    /\ UNCHANGED <<kanjiDict, kanjiData, overrides, before>>
    /\ UNCHANGED renderVars

\* one iteration of "for kanjiSym in kanjiSyms"
LookupNext ==
    /\ pc = "lookup"
    /\ idx < Len(kanjiSyms)
    /\ LET r == LookupSymbol(kanjiDict, kanjiData, kanjiSyms[idx + 1])
       IN  /\ pc' = IF r.raised THEN "raised" ELSE pc
           /\ kanjiData' = IF r.raised THEN kanjiData ELSE r.value
    /\ idx' = idx + 1
    /\ UNCHANGED <<kanjiDict, jsonEntry, kanjiSyms, overrides, before>>
    /\ UNCHANGED renderVars

\* return kanjiData
LookupReturn ==
    /\ pc = "lookup"
    /\ idx = Len(kanjiSyms)
    /\ pc' = "returned"
    /\ UNCHANGED <<idx, kanjiDict, jsonEntry, kanjiSyms, kanjiData, overrides, before>>
    /\ UNCHANGED renderVars

NextLookup == LoadEntry \/ EndOfFile \/ LookupNext \/ LookupReturn

SpecLookup == InitLookup /\ [][NextLookup]_vars

----------------------------------------------------------------------------
(* applyOverrides *)

DictionaryOverride(meanings, on, kun) == [meanings |-> meanings, on |-> on, kun |-> kun]

\* Overrides: each field missing (None), an empty list, or a list of values.
\* DictionaryOverride(["book"]), the entry of overrides.py for U672C, is one of them.
DictionaryOverrides ==
    {DictionaryOverride(m, on, kun) :
        m \in {None, Some(<<>>), Some(<<"book">>)},
        on \in {None, Some(<<>>), Some(<<"HI">>)},
        kun \in {None, Some(<<>>), Some(<<"KA", "KI">>)}}

\* Records handed to applyOverrides: a symbol with an override and one without
OverrideKanjis ==
    {KanjiData(sym, m, kun, on, Entries(1)) :
        sym \in {"U672C", "U732B"}, m \in {<<>>, <<"origin">>},
        kun \in {<<>>, <<"KI">>}, on \in {<<>>, <<"KA">>}}

Override_emptyKeepsOld(kanji, table) ==
    IF kanji.symbol \in DOMAIN table
    THEN LET override == table[kanji.symbol]
             keep(field) == field = None \/ field = Some(<<>>)
         IN  [kanji EXCEPT
                 !.meanings = IF ~keep(override.meanings) THEN TheValue(override.meanings) ELSE @,
                 !.on_readings = IF ~keep(override.on) THEN TheValue(override.on) ELSE @,
                 !.kun_readings = IF ~keep(override.kun) THEN TheValue(override.kun) ELSE @]
    ELSE kanji

Override_readingsAlways(kanji, table) ==
    IF kanji.symbol \in DOMAIN table
    THEN LET override == table[kanji.symbol]
             orEmpty(field) == IF field = None THEN <<>> ELSE TheValue(field)
         IN  [kanji EXCEPT
                 !.meanings = IF override.meanings # None THEN TheValue(override.meanings) ELSE @,
                 !.on_readings = orEmpty(override.on),
                 !.kun_readings = orEmpty(override.kun)]
    ELSE kanji

\* the body of applyOverrides' loop for one record
Override(kanji, table) ==
    IF kanji.symbol \in DOMAIN table
    THEN LET override == table[kanji.symbol]
         IN  [kanji EXCEPT
                 !.meanings = IF override.meanings # None THEN TheValue(override.meanings) ELSE @,
                 !.on_readings = IF override.on # None THEN TheValue(override.on) ELSE @,
                 !.kun_readings = IF override.kun # None THEN TheValue(override.kun) ELSE @]
    ELSE kanji

InitOverride ==
    /\ pc = "applyOverrides"
    /\ idx = 0
    /\ kanjis \in SeqsUpTo(OverrideKanjis, MaxOverridden)
    /\ before = kanjis
    /\ overrides \in {("U672C" :> o) : o \in DictionaryOverrides}
    /\ style = {}
    /\ pdf = InitialPdf
    /\ ops = <<>>
    /\ heightLeft = 0
    /\ ownPages = 0
    /\ pageBlocks = <<>>
    /\ rendered = <<>>
    /\ kanjiDict = <<>>
    /\ jsonEntry = <<>>
    /\ kanjiSyms = <<>>
    /\ kanjiData = <<>>

\* one iteration of "for kanji in kanjis"
ApplyOverride ==
    /\ pc = "applyOverrides"
    /\ idx < Len(kanjis)
    /\ kanjis' = [kanjis EXCEPT ![idx + 1] = Override(kanjis[idx + 1], overrides)]
    /\ idx' = idx + 1
    /\ UNCHANGED <<style, pc, pdf, ops, heightLeft, ownPages, pageBlocks, rendered>>
    /\ UNCHANGED lookupVars

\* applyOverrides returns
OverridesApplied ==
    /\ pc = "applyOverrides"
    /\ idx = Len(kanjis)
    /\ pc' = "applied"
    /\ UNCHANGED <<style, kanjis, idx, pdf, ops, heightLeft, ownPages, pageBlocks, rendered>>
    /\ UNCHANGED lookupVars

NextOverride == ApplyOverride \/ OverridesApplied

SpecOverride == InitOverride /\ [][NextOverride]_vars

----------------------------------------------------------------------------
(* Claims about lookupKanjiSymbolsDict (SpecLookup) *)

Present(syms) == SelectSeq(syms, LAMBDA sym : sym \in DOMAIN kanjiDict)

\* C4: an absent symbol never makes the lookup raise; the result holds, for
\* the symbols requested so far that are in the dictionary, their records,
\* one for each time the symbol was requested, in request order, and
\* nothing for the absent ones.
C4_AbsentSymbolsOmitted ==
    /\ pc # "raised"
    /\ pc \in {"lookup", "returned"} =>
          LET present == Present(SubSeq(kanjiSyms, 1, idx))
          IN  kanjiData = [k \in 1..Len(present) |-> kanjiDict[present[k]]]
    /\ pc = "returned" => idx = Len(kanjiSyms)

\* C4 witness: an absent symbol first, then a present one requested twice
C4_Witness ==
    /\ pc = "returned"
    /\ Len(kanjiSyms) = 3
    /\ kanjiSyms[1] \notin DOMAIN kanjiDict
    /\ kanjiSyms[2] = kanjiSyms[3]
    /\ Len(kanjiData) = 2

\* a file element whose handling raises in the load loop's try block
Malformed(e) ==
    \/ ~e.sized
    \/ e.arity \notin {4, 5}
    \/ e.symbol = ""
    \/ ~e.hashable
    \/ e.arity = 5 /\ ~e.raw.iterable

IsGoodRawEntry(r) == r.shape = "pair" /\ r.sized /\ Len(r.translations) > 0

\* the dictionary entries of a well-formed element: its good raw entries, in order
GoodEntries(e) ==
    LET good == IF e.arity = 5 THEN SelectSeq(e.raw.items, IsGoodRawEntry) ELSE <<>>
    IN  [k \in 1..Len(good) |-> [word |-> good[k].word, translations |-> good[k].translations]]

C5_Step ==
    (pc = "load" /\ idx' = idx + 1) =>
        LET e == jsonEntry'
        IN  /\ pc' = "load"
            /\ Malformed(e) => kanjiDict' = kanjiDict
            /\ ~Malformed(e) =>
                  /\ DOMAIN kanjiDict' = DOMAIN kanjiDict \cup {e.symbol}
                  /\ kanjiDict'[e.symbol].symbol = e.symbol
                  /\ kanjiDict'[e.symbol].meanings = e.meanings
                  /\ kanjiDict'[e.symbol].kun_readings = e.kun
                  /\ kanjiDict'[e.symbol].on_readings = e.on
                  /\ kanjiDict'[e.symbol].dictionary_entries = GoodEntries(e)
                  /\ \A sym \in DOMAIN kanjiDict \ {e.symbol} : kanjiDict'[sym] = kanjiDict[sym]

\* C5: a file element whose handling raises is skipped alone: the mapping
\* is as before and the loop goes on; every other element is stored under
\* its symbol with its good dictionary entries (a bad entry is dropped, not
\* the record), the other symbols' records stay, and what is stored is
\* returned for every request of its symbol.
C5_MalformedSkippedAlone ==
    /\ [][C5_Step]_vars
    /\ [](pc = "returned" =>
            \A k \in 1..Len(kanjiSyms) :
                kanjiSyms[k] \in DOMAIN kanjiDict =>
                    \E j \in 1..Len(kanjiData) : kanjiData[j] = kanjiDict[kanjiSyms[k]])

\* C5 witness: an element of the wrong arity was just skipped, the record
\* loaded before it is still there, and the loop can go on
C5_Witness ==
    /\ pc = "load"
    /\ idx = 2
    /\ idx < MaxFile
    /\ Malformed(jsonEntry)
    /\ jsonEntry.arity = 6
    /\ DOMAIN kanjiDict = {"U65E5"}
    /\ Len(kanjiDict["U65E5"].dictionary_entries) = 1

----------------------------------------------------------------------------
(* Claims about applyOverrides (SpecOverride) *)

MeaningsOnly(o) == o.meanings # None /\ o.on = None /\ o.kun = None

\* C6: a record whose override sets only meanings has the override's
\* meanings afterwards and everything else as before; a record whose symbol
\* has no override, and every record not yet reached, is as before.
C6_MeaningsOnlyOverride ==
    pc \in {"applyOverrides", "applied"} =>
        /\ Len(kanjis) = Len(before)
        /\ \A i \in 1..Len(kanjis) :
              /\ i > idx => kanjis[i] = before[i]
              /\ (i <= idx /\ before[i].symbol \notin DOMAIN overrides) => kanjis[i] = before[i]
              /\ (i <= idx /\ before[i].symbol \in DOMAIN overrides
                    /\ MeaningsOnly(overrides[before[i].symbol])) =>
                    /\ kanjis[i].meanings = TheValue(overrides[before[i].symbol].meanings)
                    /\ kanjis[i].on_readings = before[i].on_readings
                    /\ kanjis[i].kun_readings = before[i].kun_readings
                    /\ kanjis[i].symbol = before[i].symbol
                    /\ kanjis[i].stroke_diagram_file = before[i].stroke_diagram_file
                    /\ kanjis[i].dictionary_entries = before[i].dictionary_entries

\* C6 witness: the override of overrides.py for U672C applied to a record with readings
C6_Witness ==
    /\ pc = "applied"
    /\ Len(kanjis) = 2
    /\ overrides["U672C"] = DictionaryOverride(Some(<<"book">>), None, None)
    /\ before[1].symbol = "U672C"
    /\ before[1].meanings = <<"origin">>
    /\ before[1].on_readings = <<"KA">>
    /\ kanjis[1].meanings = <<"book">>
    /\ before[2].symbol = "U732B"

Overridden(i) == i <= idx /\ before[i].symbol \in DOMAIN overrides

\* C7 as stated: an override field that is present but empty does not
\* replace the record's value, and a missing field leaves it untouched.
C7_EmptyFieldDoesNotReplace ==
    pc \in {"applyOverrides", "applied"} =>
        \A i \in 1..Len(kanjis) :
            Overridden(i) =>
                LET o == overrides[before[i].symbol]
                IN  /\ o.meanings \in {None, Some(<<>>)} => kanjis[i].meanings = before[i].meanings
                    /\ o.on \in {None, Some(<<>>)} => kanjis[i].on_readings = before[i].on_readings
                    /\ o.kun \in {None, Some(<<>>)} => kanjis[i].kun_readings = before[i].kun_readings

\* C7 amended: an override field replaces the record's value exactly when it
\* is present (not None), an empty list included: the record then has the
\* empty list; a missing field leaves the value untouched.
C7_PresentFieldReplaces ==
    pc \in {"applyOverrides", "applied"} =>
        \A i \in 1..Len(kanjis) :
            Overridden(i) =>
                LET o == overrides[before[i].symbol]
                IN  /\ kanjis[i].meanings =
                          IF o.meanings = None THEN before[i].meanings ELSE TheValue(o.meanings)
                    /\ kanjis[i].on_readings =
                          IF o.on = None THEN before[i].on_readings ELSE TheValue(o.on)
                    /\ kanjis[i].kun_readings =
                          IF o.kun = None THEN before[i].kun_readings ELSE TheValue(o.kun)

\* C7 witness: an empty meanings list replaced a record's meanings, a missing on left them
C7_Witness ==
    /\ idx >= 1
    /\ before[1].symbol = "U672C"
    /\ overrides["U672C"].meanings = Some(<<>>)
    /\ overrides["U672C"].on = None
    /\ before[1].meanings = <<"origin">>
    /\ kanjis[1].meanings = <<>>
    /\ before[1].on_readings = <<"KA">>
    /\ kanjis[1].on_readings = <<"KA">>

----------------------------------------------------------------------------
(* Page breaks of renderDocument (SpecLayout) *)

BlockHeights(is) == [k \in 1..Len(is) |-> calc_kanji_block_height(kanjis[is[k]], style)]

C10_State ==
    /\ heightLeft \in 0..availHeightPerPage
    /\ SumHeights(BlockHeights(pageBlocks)) <= availHeightPerPage
    /\ rendered = SubSeq(kanjis, 1, idx)
    /\ pc = "done" => rendered = kanjis

C10_Step ==
    idx' = idx + 1 =>
        /\ ownPages' # ownPages =>
              heightLeft < calc_kanji_block_height(kanjis[idx + 1], style)
        /\ rendered' = Append(rendered, kanjis[idx + 1])

C9_CursorMatchesAccounting ==
    pc = "renderDocument" =>
        /\ pdf.y - t_margin = availHeightPerPage - heightLeft
        /\ pdf.page = ownPages

\* C9 witness of the failing case: big kanji, fourth block of a page
C9_Witness ==
    /\ "BigKanji" \in style
    /\ idx = 4
    /\ ownPages = 1
    /\ pdf.page = 2

----------------------------------------------------------------------------
(* One block (SpecBlock) *)

BlockStart == [pdf |-> add_page([InitialPdf EXCEPT !.font = <<"", 14>>]), ops |-> <<>>]

IsWordCell(o) == o.op = "cell" /\ o.border = 0 /\ o.at.font = <<"B", 8>>
IsTranslationCell(o) == o.op = "cell" /\ o.border = 0 /\ o.at.font = <<"", 8>>
IsDictionaryFrame(o) == o.op = "cell" /\ o.w = cell_width * 12

\* C2: for a record without dictionary entries the ShowDictionary flag
\* changes nothing: same computed height, same drawing steps, same final
\* cursor as without the flag, no dictionary rectangle, and the block ends
\* 1.25 cell widths below its last row.
C2_NoEntriesFlagHasNoEffect ==
    (idx = 1 /\ Len(kanjis[1].dictionary_entries) = 0 /\ "ShowDictionary" \in style) =>
        LET plain == style \ {"ShowDictionary"}
            ref == render_kanji_block(BlockStart, kanjis[1], plain)
        IN  /\ calc_kanji_block_height(kanjis[1], style)
                 = calc_kanji_block_height(kanjis[1], plain)
            /\ ops = ref.ops
            /\ pdf = ref.pdf
            /\ \A k \in 1..Len(ops) :
                  ~IsDictionaryFrame(ops[k]) /\ ~IsWordCell(ops[k]) /\ ~IsTranslationCell(ops[k])
            /\ pdf.y = ops[Len(ops)].at.y + (cell_width * 5) \div 4

C2_Witness ==
    /\ idx = 1
    /\ Len(kanjis[1].dictionary_entries) = 0
    /\ {"ShowDictionary", "BigKanji", "CrossGuide"} \subseteq style

\* C3: the dictionary block shows the first min(n, 9) entries in their
\* order and nothing else; entry k stands in column (k-1) div 3 and row
\* (k-1) mod 3 of the frame, so at most three columns of three entries.
C3_FirstNineInThreeColumns ==
    (idx = 1 /\ "ShowDictionary" \in style) =>
        LET entries == kanjis[1].dictionary_entries
            n == Len(entries)
            words == SelectSeq(ops, IsWordCell)
            trans == SelectSeq(ops, IsTranslationCell)
            frames == SelectSeq(ops, IsDictionaryFrame)
            rowHeight == 2 * (cell_width \div 4) + (cell_width \div 10)
        IN  /\ Len(words) = Min(n, 9)
            /\ Len(trans) = Min(n, 9)
            /\ Len(frames) = IF n > 0 THEN 1 ELSE 0
            /\ \A k \in 1..Len(words) :
                  /\ words[k].text = <<entries[k].word>>
                  /\ trans[k].text = Join("; ", entries[k].translations)
                  /\ words[k].at.x = frames[1].at.x + ((k - 1) \div 3) * (cell_width * 4)
                                     + (cell_width \div 10)
                  /\ words[k].at.y = frames[1].at.y + (cell_width \div 10)
                                     + ((k - 1) % 3) * rowHeight
                  /\ words[k].at.page = frames[1].at.page

C3_Witness ==
    /\ idx = 1
    /\ "ShowDictionary" \in style
    /\ Len(kanjis[1].dictionary_entries) = 10
    /\ Len(SelectSeq(ops, IsWordCell)) = 9

\* text.split(sep) on token texts
RECURSIVE Split(_, _)
Split(text, sep) ==
    IF \A k \in 1..Len(text) : text[k] # sep THEN <<text>>
    ELSE LET k == CHOOSE j \in 1..Len(text) :
                      text[j] = sep /\ \A m \in 1..(j - 1) : text[m] # sep
         IN  <<SubSeq(text, 1, k - 1)>> \o Split(SubSeq(text, k + 1, Len(text)), sep)

ReadingCellAsClaimed(o, readings) ==
    IF Len(readings) = 0
    THEN o.text = <<"none">>
    ELSE LET lines == Split(o.text, "\n")
         IN  /\ Len(lines) = 2
             /\ Split(lines[1], ", ") = [k \in 1..Len(readings) |-> <<readings[k]>>]
             /\ Split(lines[2], ", ") = [k \in 1..Len(readings) |-> <<to_roma(readings[k])>>]

\* C8: the cell of a reading list holds exactly "none" for an empty list;
\* otherwise the readings joined by ", ", a line break, and their
\* romanisations joined by ", ", in the same order and number.  The cells
\* of the on- and the kun-readings follow the meaning cell, three cell
\* widths wide each.
C8_ReadingsText ==
    idx = 1 =>
        LET first == IF "ShowRegularKanji" \in style THEN 3 ELSE 2
        IN  /\ ReadingCellAsClaimed(ops[first], kanjis[1].on_readings)
            /\ ReadingCellAsClaimed(ops[first + 1], kanjis[1].kun_readings)
            /\ ops[first].w = cell_width * 3
            /\ ops[first + 1].w = cell_width * 3

C8_Witness ==
    /\ idx = 1
    /\ kanjis[1].kun_readings = <<>>
    /\ Len(kanjis[1].on_readings) = 2
    /\ ops[2].text = <<"KA", ", ", "KI", "\n", "ka", ", ", "ki">>
    /\ ops[3].text = <<"none">>

====
